---- MODULE Spec2Model ----
(***************************************************************************)
(* Non-autoregressive translation models of DSLP:                          *)
(*   nat_ctc_sd          (src/fairseq/models/nat/nat_ctc_sd.py)            *)
(*   nat_sd_glat_anneal  (src/fairseq/models/nat/nat_sd_glat_anneal.py)    *)
(*                                                                         *)
(* A tensor [B, T] of token ids is a function 0..B-1 -> (0..T-1 -> id),    *)
(* with the source's 0-based indices.  The state is the model's            *)
(* configuration (args) and the record of the call in progress or last     *)
(* completed (call).  Values computed by the network (argmax tokens, CTC   *)
(* losses, random draws) are chosen nondeterministically.                  *)
(***************************************************************************)
EXTENDS Integers, Sequences, FiniteSets, TLC

VARIABLES args, call

vars == <<args, call>>

(***************************************************************************)
(* Bounds of the model.                                                    *)
(***************************************************************************)
MaxBatch == 2
MaxSrcLen == 3
MaxScale == 2
MaxPredLen == 3
MaxLayers == 3
MaxTrainBatch == 1
MaxTgtLen == 3
MaxSamples == 2

(***************************************************************************)
(* Dictionary ids.                                                         *)
(***************************************************************************)
bos == 0
pad == 1
eos == 2
unk == 3
WordA == 4
WordB == 5

NumLengthBuckets == 256
LengthOffsetBias == 128

(***************************************************************************)
(* Tensor helpers.                                                         *)
(***************************************************************************)
Range(f) == {f[x] : x \in DOMAIN f}

MaxOf(S) == CHOOSE m \in S : \A v \in S : v <= m

ClampMin(v, lo) == IF v < lo THEN lo ELSE v

Clamp(v, lo, hi) == IF v < lo THEN lo ELSE IF v > hi THEN hi ELSE v

\* x.ne(pad).sum(-1) of one row
CountNonPad(row) == Cardinality({j \in DOMAIN row : row[j] # pad})

Width(t) == IF DOMAIN t = {} THEN 0 ELSE Cardinality(DOMAIN t[0])

\* zeros of the shape of t
ZerosLike(t) == [b \in DOMAIN t |-> [j \in DOMAIN t[b] |-> 0]]

(***************************************************************************)
(* Skeleton synthesis shared by both initializers: fill with pad, write    *)
(* unk below each row's length, bos at column 0, eos at column length - 1. *)
(* length_tgt is already floored at 2.                                     *)
(***************************************************************************)
SkeletonBadEos(length_tgt) ==
    LET max_length == MaxOf(Range(length_tgt))
    IN  [b \in DOMAIN length_tgt |->
            [j \in 0 .. max_length - 1 |->
                IF j = max_length - 1 THEN eos
                ELSE IF j = 0 THEN bos
                ELSE IF j < length_tgt[b] THEN unk ELSE pad]]

Skeleton(length_tgt) ==
    LET max_length == MaxOf(Range(length_tgt))
        idx_length == 0 .. max_length - 1
        filled == [b \in DOMAIN length_tgt |-> [j \in idx_length |-> pad]]
        unked  == [b \in DOMAIN length_tgt |-> [j \in idx_length |->
                      IF j < length_tgt[b] THEN unk ELSE filled[b][j]]]
        bosed  == [b \in DOMAIN length_tgt |-> [j \in idx_length |->
                      IF j = 0 THEN bos ELSE unked[b][j]]]
    IN  [b \in DOMAIN length_tgt |-> [j \in idx_length |->
            IF j = length_tgt[b] - 1 THEN eos ELSE bosed[b][j]]]

(***************************************************************************)
(* nat_ctc_sd: initialize_output_tokens_by_src_tokens                      *)
(***************************************************************************)
\* _us(x, s): every source token repeated s times contiguously
\* the whole row repeated s times (x.repeat(1, s)), not each token
UpsampleTiled(x, s) ==
    [b \in DOMAIN x |-> [j \in 0 .. Width(x) * s - 1 |-> x[b][j % Width(x)]]]

Upsample(x, s) ==
    [b \in DOMAIN x |-> [j \in 0 .. Width(x) * s - 1 |-> x[b][j \div s]]]

CtcLengthTgtNoFloor(src_tokens, a) ==
    [b \in DOMAIN src_tokens |-> CountNonPad(src_tokens[b]) * a.src_upsample_scale]

CtcLengthTgt(src_tokens, a) ==
    [b \in DOMAIN src_tokens |->
        ClampMin(CountNonPad(src_tokens[b]) * a.src_upsample_scale, 2)]

initialize_output_tokens_by_src_tokens(src_tokens, a) ==
    IF ~a.copy_src_token
    THEN Skeleton(CtcLengthTgt(src_tokens, a))
    ELSE IF a.src_upsample_scale <= 1
         THEN src_tokens
         ELSE Upsample(src_tokens, a.src_upsample_scale)

(***************************************************************************)
(* The encoder collaborator's record: T x B features and a list holding    *)
(* the padding mask, or the empty list.                                    *)
(***************************************************************************)
EncoderOut(padding_mask, withMask) ==
    [T |-> Width(padding_mask),
     B |-> Cardinality(DOMAIN padding_mask),
     encoder_padding_mask |-> IF withMask THEN <<padding_mask>> ELSE <<>>]

(***************************************************************************)
(* nat_sd_glat_anneal: NATransformerDecoder.forward_length_prediction.     *)
(* pred_lengs is the greedy argmax bucket of length_out; tgt_lengs the     *)
(* non-pad target lengths, used when hasTgt.                               *)
(***************************************************************************)
SrcLengsFromMaskOnly(encoder_out) ==
    [b \in 0 .. encoder_out.B - 1 |->
        IF Len(encoder_out.encoder_padding_mask) > 0
        THEN Cardinality({j \in DOMAIN encoder_out.encoder_padding_mask[1][b] :
                            ~encoder_out.encoder_padding_mask[1][b][j]})
        ELSE 0]

SrcLengs(encoder_out) ==
    IF Len(encoder_out.encoder_padding_mask) > 0
    THEN [b \in 0 .. encoder_out.B - 1 |->
            Cardinality({j \in DOMAIN encoder_out.encoder_padding_mask[1][b] :
                           ~encoder_out.encoder_padding_mask[1][b][j]})]
    ELSE [b \in 0 .. encoder_out.B - 1 |-> encoder_out.T]

LengthPredictionWithoutSource(pred_lengs, encoder_out, hasTgt, tgt_lengs, a) ==
    IF hasTgt
    THEN [b \in DOMAIN tgt_lengs |->
            Clamp(IF a.pred_length_offset
                  THEN tgt_lengs[b] - SrcLengs(encoder_out)[b] + LengthOffsetBias
                  ELSE tgt_lengs[b],
                  0, NumLengthBuckets - 1)]
    ELSE [b \in DOMAIN pred_lengs |->
            IF a.pred_length_offset THEN pred_lengs[b] - LengthOffsetBias ELSE pred_lengs[b]]

forward_length_prediction(pred_lengs, encoder_out, hasTgt, tgt_lengs, a) ==
    IF hasTgt
    THEN [b \in DOMAIN tgt_lengs |->
            Clamp(IF a.pred_length_offset
                  THEN tgt_lengs[b] - SrcLengs(encoder_out)[b] + LengthOffsetBias
                  ELSE tgt_lengs[b],
                  0, NumLengthBuckets - 1)]
    ELSE [b \in DOMAIN pred_lengs |->
            IF a.pred_length_offset
            THEN pred_lengs[b] - LengthOffsetBias + SrcLengs(encoder_out)[b]
            ELSE pred_lengs[b]]

(***************************************************************************)
(* DecoderOut as built by initialize_output_tokens.                        *)
(***************************************************************************)
NoHistory == [enabled |-> FALSE, entries |-> <<>>]

DecoderOut(output_tokens) ==
    [output_tokens |-> output_tokens,
     output_scores |-> ZerosLike(output_tokens),
     step |-> 0,
     max_step |-> 0,
     history |-> NoHistory]

(***************************************************************************)
(* Inputs.                                                                 *)
(***************************************************************************)
\* a source row: at least one token, padding on the left (left_pad_source)
IsSrcRow(row) ==
    \E n \in 1 .. Cardinality(DOMAIN row) :
        \A j \in DOMAIN row : (row[j] = pad) <=> (j < Cardinality(DOMAIN row) - n)

SrcRows(S) == {row \in [0 .. S - 1 -> {pad, WordA, WordB}] : IsSrcRow(row)}

SrcBatches ==
    UNION {[0 .. B - 1 -> SrcRows(S)] : <<B, S>> \in (1 .. MaxBatch) \X (1 .. MaxSrcLen)}

PaddingMasks == {[b \in DOMAIN t |-> [j \in DOMAIN t[b] |-> t[b][j] = pad]] : t \in SrcBatches}

\* greedy length buckets whose decoded length stays within -1 .. MaxPredLen
PredBuckets(a) ==
    IF a.pred_length_offset
    THEN (LengthOffsetBias - MaxSrcLen - 1) .. (LengthOffsetBias + MaxPredLen - 1)
    ELSE 0 .. MaxPredLen

\* train_ratio of forward, in percent; NoTrainRatio is the default None
NoTrainRatio == [given |-> FALSE, value |-> 0]

TrainRatios == {NoTrainRatio} \cup {[given |-> TRUE, value |-> v] : v \in {0, 2, 5, 100}}

\* the attributes of a constructed nat_ctc_sd model: its args, the beam width
\* of its ctc_decoder, and no train_ratio attribute on encoder or decoder
CtcDefault ==
    [model |-> "nat_ctc_sd",
     src_upsample_scale |-> 1,
     copy_src_token |-> FALSE,
     num_cross_layer_sample |-> 0,
     decoder_layers |-> 1,
     plain_ctc |-> FALSE,
     inference_decoder_layer |-> -1,
     ctc_beam_size |-> 1,
     beam_width |-> 1,
     encoder_train_ratio |-> NoTrainRatio,
     decoder_train_ratio |-> NoTrainRatio]

CtcArgs ==
    {[CtcDefault EXCEPT !.src_upsample_scale = k, !.copy_src_token = c] :
        <<k, c>> \in (1 .. MaxScale) \X BOOLEAN}

GlatDefault ==
    [model |-> "nat_sd_glat_anneal",
     pred_length_offset |-> FALSE,
     decoder_layers |-> 1,
     hard_argmax |-> FALSE,
     layer_norm |-> FALSE,
     inference_decoder_layer |-> -1,
     training |-> TRUE,
     fix_schedule |-> FALSE,
     always_half |-> FALSE,
     max_sentences |-> MaxTrainBatch]

GlatArgs == {[GlatDefault EXCEPT !.pred_length_offset = o] : o \in BOOLEAN}

(***************************************************************************)
(* Specification of the two initializers.                                  *)
(***************************************************************************)
Idle == [op |-> "idle"]

\* the caller takes the returned value; the call's tensors are discarded
Return ==
    /\ call.op \in {"initialize_output_tokens", "sequence_ctc_loss_with_logits"}
    /\ call' = Idle
    /\ UNCHANGED args

InitInitialize ==
    /\ args \in CtcArgs \cup GlatArgs
    /\ call = Idle

\* nat_ctc_sd.NATransformerModel.initialize_output_tokens
InitializeCtc ==
    /\ args.model = "nat_ctc_sd"
    /\ call = Idle
    /\ \E src_tokens \in SrcBatches :
          call' = [op |-> "initialize_output_tokens",
                   src_tokens |-> src_tokens,
                   out |-> DecoderOut(initialize_output_tokens_by_src_tokens(src_tokens, args))]
    /\ UNCHANGED args

\* nat_sd_glat_anneal.NATransformerModel.initialize_output_tokens
GlatLengthTgt(pred_lengs, encoder_out, a) ==
    LET length_tgt == forward_length_prediction(pred_lengs, encoder_out, FALSE, pred_lengs, a)
    IN  [b \in DOMAIN length_tgt |-> ClampMin(length_tgt[b], 2)]

InitializeGlat ==
    /\ args.model = "nat_sd_glat_anneal"
    /\ call = Idle
    /\ \E padding_mask \in PaddingMasks, withMask \in BOOLEAN :
          /\ withMask \/ \A b \in DOMAIN padding_mask : \A j \in DOMAIN padding_mask[b] :
                            ~padding_mask[b][j]
          /\ \E pred_lengs \in [DOMAIN padding_mask -> PredBuckets(args)] :
                LET encoder_out == EncoderOut(padding_mask, withMask)
                IN  call' = [op |-> "initialize_output_tokens",
                             encoder_out |-> encoder_out,
                             pred_lengs |-> pred_lengs,
                             out |-> DecoderOut(Skeleton(GlatLengthTgt(pred_lengs, encoder_out, args)))]
    /\ UNCHANGED args

NextInitialize == InitializeCtc \/ InitializeGlat \/ Return

SpecInitialize == InitInitialize /\ [][NextInitialize]_vars

(***************************************************************************)
(* nat_sd_glat_anneal: NATransformerDecoder.extract_features.              *)
(*                                                                         *)
(* Hidden states and logits are symbolic.  A hidden state records how many *)
(* layers produced it and whether the final layer norm was applied; a      *)
(* logits entry records the hidden state the output head was applied to.   *)
(* The input of a layer records x, the y_hat mixed in and the two          *)
(* un-normalised coefficients (cx * x + cy * y_hat) / sqrt(cx^2 + cy^2);   *)
(* explicit weights are in percent.                                        *)
(***************************************************************************)
WeightValues == {0, 50, 100}

NoEarlyExit == [given |-> FALSE, value |-> 0]

NoWeights == [given |-> FALSE, list |-> <<>>]

Embedded == [layers |-> 0, normed |-> FALSE]

output_layer(x) == [x |-> x]

\* soft: softmax(logits / temperature) @ embed_tokens.weight; hard: embedding of argmax
YHat(layer_out_logits, a) == [logits |-> layer_out_logits, hard |-> a.hard_argmax]

Blend(i, x, y_hat, feed_forward_weights) ==
    IF ~feed_forward_weights.given
    THEN [x |-> x, y_hat |-> y_hat, cx |-> 1, cy |-> 1]
    ELSE LET p == feed_forward_weights.list[i + 1]
             one_minus_p == 100 - p
         IN  [x |-> x, y_hat |-> y_hat, cx |-> p, cy |-> one_minus_p]

AppendAtEveryLayer(i, all_layer_output_logits, layer_out_logits) ==
    Append(all_layer_output_logits, layer_out_logits)

\* if i > 0: all_layer_output_logits.append(layer_out_logits)
AppendFeedbackLogits(i, all_layer_output_logits, layer_out_logits) ==
    IF i > 0
    THEN Append(all_layer_output_logits, layer_out_logits)
    ELSE all_layer_output_logits

NoTerminalLogits(all_layer_output_logits, x) == all_layer_output_logits

\* all_layer_output_logits.append(self.output_layer(x)), after the loop
AppendTerminalLogits(all_layer_output_logits, x) ==
    Append(all_layer_output_logits, output_layer(x))

\* the decoder layer: self and cross attention on new_x
Layer(new_x) == [layers |-> new_x.x.layers + 1, normed |-> FALSE]

LayerNorm(x, a) == IF a.layer_norm THEN [x EXCEPT !.normed = TRUE] ELSE x

EarlyExits == {NoEarlyExit} \cup {[given |-> TRUE, value |-> e] : e \in 0 .. MaxLayers + 1}

WeightLists(n) == {NoWeights} \cup {[given |-> TRUE, list |-> l] : l \in [1 .. n -> WeightValues]}

\* the encoder records extract_features is given: one sentence of MaxSrcLen
\* frames, each of the padding mask and the embedding in a list or left out
DecoderEncoderOuts ==
    {[T |-> e.T, B |-> e.B,
      encoder_padding_mask |-> e.encoder_padding_mask,
      encoder_embedding |-> IF withEmbedding THEN <<"src_embd">> ELSE <<>>] :
        <<e, withEmbedding>> \in
            {EncoderOut(m, withMask) :
                <<m, withMask>> \in {pm \in PaddingMasks : DOMAIN pm = {0} /\ Width(pm) = MaxSrcLen}
                                       \X BOOLEAN}
            \X BOOLEAN}

\* src_mask of the embedding copy: ~encoder_padding_mask[0], or all ones
CopySrcMask(encoder_out) ==
    IF Len(encoder_out.encoder_padding_mask) > 0
    THEN [b \in DOMAIN encoder_out.encoder_padding_mask[1] |->
            [j \in DOMAIN encoder_out.encoder_padding_mask[1][b] |->
                ~encoder_out.encoder_padding_mask[1][b][j]]]
    ELSE [b \in 0 .. encoder_out.B - 1 |-> [j \in 0 .. encoder_out.T - 1 |-> TRUE]]

\* the encoder_padding_mask argument of every layer call: the mask or None
LayerPaddingMask(encoder_out) ==
    IF Len(encoder_out.encoder_padding_mask) > 0
    THEN [given |-> TRUE, mask |-> encoder_out.encoder_padding_mask[1]]
    ELSE [given |-> FALSE, mask |-> <<>>]

InitDecoder ==
    /\ args \in {[GlatDefault EXCEPT !.decoder_layers = n, !.hard_argmax = h, !.layer_norm = ln] :
                    <<n, h, ln>> \in (1 .. MaxLayers) \X BOOLEAN \X BOOLEAN}
    /\ call = Idle

\* entry: embedding, x = x.transpose(0, 1), all_layer_output_logits = []
ExtractFeaturesCall ==
    /\ args.model = "nat_sd_glat_anneal"
    /\ call = Idle
    /\ \E early_exit \in EarlyExits, w \in WeightLists(args.decoder_layers),
          encoder_out \in DecoderEncoderOuts, embedding_copy \in BOOLEAN :
          IF embedding_copy /\ Len(encoder_out.encoder_embedding) = 0
          THEN call' = [op |-> "extract_features",
                        pc |-> "raised",
                        raised |-> "IndexError",
                        encoder_out |-> encoder_out,
                        embedding_copy |-> embedding_copy,
                        all_layer_output_logits |-> <<>>,
                        layer_inputs |-> <<>>]
          ELSE call' = [op |-> "extract_features",
                        pc |-> "loop",
                        early_exit |-> early_exit,
                        feed_forward_weights |-> w,
                        encoder_out |-> encoder_out,
                        embedding_copy |-> embedding_copy,
                        src_mask |-> IF embedding_copy
                                     THEN <<CopySrcMask(encoder_out)>> ELSE <<>>,
                        layer_padding_mask |-> LayerPaddingMask(encoder_out),
                        i |-> 0,
                        x |-> Embedded,
                        all_layer_output_logits |-> <<>>,
                        layer_inputs |-> <<>>]
    /\ UNCHANGED args

InLoop == call.op = "extract_features" /\ call.pc = "loop"

EarlyBreak == call.early_exit.given /\ call.i >= call.early_exit.value

\* one iteration of: for i, layer in enumerate(self.layers)
LayerStep ==
    /\ InLoop
    /\ call.i < args.decoder_layers
    /\ ~EarlyBreak
    /\ LET layer_out_logits == output_layer(call.x)
           y_hat == YHat(layer_out_logits, args)
           new_x == Blend(call.i, call.x, y_hat, call.feed_forward_weights)
       IN  call' = [call EXCEPT
                      !.all_layer_output_logits =
                          AppendFeedbackLogits(call.i, @, layer_out_logits),
                      !.layer_inputs = Append(@, new_x),
                      !.x = Layer(new_x),
                      !.i = @ + 1]
    /\ UNCHANGED args

\* the loop ends (exhausted or early exit): terminal logits, final layer norm
LoopExit ==
    /\ InLoop
    /\ call.i >= args.decoder_layers \/ EarlyBreak
    /\ call' = [call EXCEPT
                  !.all_layer_output_logits = AppendTerminalLogits(@, call.x),
                  !.x = LayerNorm(call.x, args),
                  !.pc = "done"]
    /\ UNCHANGED args

DecoderReturn ==
    /\ call.op = "extract_features"
    /\ call.pc \in {"done", "raised"}
    /\ call' = Idle
    /\ UNCHANGED args

NextDecoder == ExtractFeaturesCall \/ LayerStep \/ LoopExit \/ DecoderReturn

SpecDecoder == InitDecoder /\ [][NextDecoder]_vars

(***************************************************************************)
(* nat_sd_glat_anneal: NATransformerDecoder.forward without early exit:    *)
(* the list extract_features builds over all layers.                       *)
(***************************************************************************)
RECURSIVE LayerLoop(_, _, _, _, _)
LayerLoop(i, x, all_layer_output_logits, feed_forward_weights, a) ==
    IF i >= a.decoder_layers
    THEN AppendTerminalLogits(all_layer_output_logits, x)
    ELSE LET layer_out_logits == output_layer(x)
             new_x == Blend(i, x, YHat(layer_out_logits, a), feed_forward_weights)
         IN  LayerLoop(i + 1, Layer(new_x),
                       AppendFeedbackLogits(i, all_layer_output_logits, layer_out_logits),
                       feed_forward_weights, a)

DecoderForward(feed_forward_weights, a) ==
    LayerLoop(0, Embedded, <<>>, feed_forward_weights, a)

(***************************************************************************)
(* nat_sd_glat_anneal: NATransformerModel.forward, the glancing            *)
(* controller.  Fractions are records [num, den] with den > 0.             *)
(***************************************************************************)
Frac(n, d) == [num |-> n, den |-> d]

FracLE(p, q) == p.num * q.den <= q.num * p.den

\* x.masked_fill(mask, v)
MaskedFill(x, mask, v) ==
    [b \in DOMAIN x |-> [j \in DOMAIN x[b] |-> IF mask[b][j] THEN v ELSE x[b][j]]]

Not(mask) == [b \in DOMAIN mask |-> [j \in DOMAIN mask[b] |-> ~mask[b][j]]]

Add(x, y) == [b \in DOMAIN x |-> [j \in DOMAIN x[b] |-> x[b][j] + y[b][j]]]

\* x.ne(self.pad)
NonPad(x) == [b \in DOMAIN x |-> [j \in DOMAIN x[b] |-> x[b][j] # pad]]

SameNumOverAllPositions(pred_tokens, tgt_tokens) ==
    [b \in DOMAIN tgt_tokens |->
        Cardinality({j \in DOMAIN tgt_tokens[b] : pred_tokens[b][j] = tgt_tokens[b][j]})]

\* ((pred_tokens == tgt_tokens) & nonpad_positions).sum(1)
SameNum(pred_tokens, tgt_tokens) ==
    LET nonpad_positions == NonPad(tgt_tokens)
    IN  [b \in DOMAIN tgt_tokens |->
            Cardinality({j \in DOMAIN tgt_tokens[b] :
                pred_tokens[b][j] = tgt_tokens[b][j] /\ nonpad_positions[b][j]})]

SeqLens(tgt_tokens) == [b \in DOMAIN tgt_tokens |-> CountNonPad(tgt_tokens[b])]

\* (seq_lens - same_num) / seq_lens * glat['context_p']
KeepProb(same_num, seq_lens, context_p) ==
    [b \in DOMAIN seq_lens |->
        Frac((seq_lens[b] - same_num[b]) * context_p.num, seq_lens[b] * context_p.den)]

\* the outcomes of torch.rand(shape) < keep_prob, rand uniform on [0, 1)
KeepWordMasks(keep_prob, like) ==
    {m \in [DOMAIN like -> [DOMAIN like[0] -> BOOLEAN]] :
        \A b \in DOMAIN like :
            /\ FracLE(keep_prob[b], Frac(0, 1)) => \A j \in DOMAIN m[b] : ~m[b][j]
            /\ FracLE(Frac(1, 1), keep_prob[b]) => \A j \in DOMAIN m[b] : m[b][j]}

GlatPrevOutputTokensSwapped(prev_output_tokens, tgt_tokens, keep_word_mask) ==
    Add(MaskedFill(prev_output_tokens, Not(keep_word_mask), 0),
        MaskedFill(tgt_tokens, keep_word_mask, 0))

\* prev_output_tokens.masked_fill(keep_word_mask, 0) + tgt_tokens.masked_fill(~keep_word_mask, 0)
GlatPrevOutputTokens(prev_output_tokens, tgt_tokens, keep_word_mask) ==
    Add(MaskedFill(prev_output_tokens, keep_word_mask, 0),
        MaskedFill(tgt_tokens, Not(keep_word_mask), 0))

\* tgt_tokens.masked_fill(keep_word_mask, self.pad)
GlatTgtTokens(tgt_tokens, keep_word_mask) == MaskedFill(tgt_tokens, keep_word_mask, pad)

\* ret_val[f"word_ins_{_idx}"] for each entry of the decoder's list
\* every entry with factor 1, as the CTC model weighs its layers
WordInsUnitFactor(word_ins_out_list, tgt_tokens, tgt_mask, a) ==
    [idx \in 1 .. Len(word_ins_out_list) |->
        [out |-> word_ins_out_list[idx],
         tgt |-> tgt_tokens,
         mask |-> tgt_mask,
         factor |-> Frac(1, 1)]]

\* ret_val["word_ins_{_idx}"] for each entry of word_ins_out_list
WordIns(word_ins_out_list, tgt_tokens, tgt_mask, a) ==
    [idx \in 1 .. Len(word_ins_out_list) |->
        [out |-> word_ins_out_list[idx],
         tgt |-> tgt_tokens,
         mask |-> tgt_mask,
         factor |-> Frac(1, a.decoder_layers)]]

\* a target row: bos, words, eos, then padding on the right
IsTgtRow(row) ==
    \E n \in 2 .. Cardinality(DOMAIN row) :
        \A j \in DOMAIN row :
            /\ (j = 0) <=> (row[j] = bos)
            /\ (j = n - 1) <=> (row[j] = eos)
            /\ (j >= n) <=> (row[j] = pad)

TgtRows(T) == {row \in [0 .. T - 1 -> {bos, eos, pad, WordA}] : IsTgtRow(row)}

TgtBatches ==
    UNION {[0 .. B - 1 -> TgtRows(T)] : <<B, T>> \in (1 .. MaxTrainBatch) \X (2 .. MaxTgtLen)}

\* the fully masked decoder input of training: every word of the target is unk
FullMask(tgt_tokens) ==
    [b \in DOMAIN tgt_tokens |-> [j \in DOMAIN tgt_tokens[b] |->
        IF tgt_tokens[b][j] \in {bos, eos, pad} THEN tgt_tokens[b][j] ELSE unk]]

Masks(like) == [DOMAIN like -> [DOMAIN like[0] -> BOOLEAN]]

\* argmax tokens of the probe pass: at each position the target's token or another one
PredTokens(tgt_tokens) ==
    {[b \in DOMAIN tgt_tokens |-> [j \in DOMAIN tgt_tokens[b] |->
         IF differs[b][j] THEN WordB ELSE tgt_tokens[b][j]]] : differs \in Masks(tgt_tokens)}

ContextPs == {Frac(0, 2), Frac(1, 2), Frac(2, 2)}

\* the target batches a model configured for max_sentences rows is trained on
GlatTgtBatches(a) ==
    UNION {[0 .. B - 1 -> TgtRows(T)] : <<B, T>> \in (1 .. a.max_sentences) \X (2 .. MaxTgtLen)}

\* the glat argument of forward: None, or a dictionary with its keys
NoGlat == [given |-> FALSE, keys |-> {}, context_p |-> Frac(0, 1)]

GlatDicts ==
    {NoGlat, [given |-> TRUE, keys |-> {}, context_p |-> Frac(0, 1)],
     [given |-> TRUE, keys |-> {"schedule"}, context_p |-> Frac(0, 1)]}
        \cup {[given |-> TRUE, keys |-> {"context_p"}, context_p |-> p] : p \in ContextPs}

GlatBranchIgnoringSchedule(glat) ==
    IF glat.given /\ glat.keys # {} /\ "context_p" \in glat.keys THEN "context_p" ELSE "none"

\* if glat and tgt_tokens is not None: if "context_p" in glat: ...
\* elif "schedule" in glat: raise NotImplementedError
GlatBranch(glat) ==
    IF glat.given /\ glat.keys # {}
    THEN IF "context_p" \in glat.keys
         THEN "context_p"
         ELSE IF "schedule" \in glat.keys THEN "schedule" ELSE "none"
    ELSE "none"

\* the argmax of the probe pass at decoder layer l of L: the last layer gives
\* pred_tokens, a shallower one has settled the first l positions only
LayerPredTokens(pred_tokens, l, L) ==
    [b \in DOMAIN pred_tokens |-> [j \in DOMAIN pred_tokens[b] |->
        IF l = L \/ j < l THEN pred_tokens[b][j] ELSE WordB]]

\* sum((per_layer_output_logits.argmax(-1) == tgt_tokens) & tgt_mask) / sum(tgt_mask)
PerLayerAcc(layer_pred_tokens, tgt_tokens, tgt_mask) ==
    [b \in DOMAIN tgt_tokens |->
        Frac(Cardinality({j \in DOMAIN tgt_tokens[b] :
                            layer_pred_tokens[b][j] = tgt_tokens[b][j] /\ tgt_mask[b][j]}),
             Cardinality({j \in DOMAIN tgt_tokens[b] : tgt_mask[b][j]}))]

Min(x, y) == IF x <= y THEN x ELSE y

\* floor(100 * sqrt(num / den) / 2) for the accuracies of rows of up to MaxTgtLen
\* tokens: per_layer_acc ** 0.5 / 2 in percent
HalfSqrtPercentTable ==
    [f \in (0 .. MaxTgtLen) \X (1 .. MaxTgtLen) |->
        CHOOSE r \in 0 .. 100 :
            /\ r * r * f[2] <= 2500 * f[1]
            /\ (r + 1) * (r + 1) * f[2] > 2500 * f[1]]

HalfSqrtPercent(acc) == HalfSqrtPercentTable[<<acc.num, acc.den>>]

AllLayerWeightUnhalved(all_layer_acc_list, train_ratio, a) ==
    [l \in DOMAIN all_layer_acc_list |->
        [b \in DOMAIN all_layer_acc_list[l] |->
            IF a.fix_schedule
            THEN Min(50, train_ratio.value * 10)
            ELSE IF a.always_half
                 THEN 50
                 ELSE 2 * HalfSqrtPercent(all_layer_acc_list[l][b])]]

\* 2.1 calculate per layer y_hat weights: one weight per layer and row, in percent
AllLayerWeight(all_layer_acc_list, train_ratio, a) ==
    [l \in DOMAIN all_layer_acc_list |->
        [b \in DOMAIN all_layer_acc_list[l] |->
            IF a.fix_schedule
            THEN Min(50, train_ratio.value * 10)
            ELSE IF a.always_half
                 THEN 50
                 ELSE HalfSqrtPercent(all_layer_acc_list[l][b])]]

\* the decoder on a batch blended with per-row weights: row b of the batch is
\* blended with feed_forward_weights[i][b]
DecoderForwardRows(all_layer_weight, a) ==
    [b \in DOMAIN all_layer_weight[1] |->
        DecoderForward([given |-> TRUE,
                        list |-> [l \in DOMAIN all_layer_weight |-> all_layer_weight[l][b]]], a)]

\* the default flags (training mode, accuracy-derived weights), one sentence
\* per batch: forward treats the rows of a batch independently
InitGlat ==
    /\ args = [GlatDefault EXCEPT !.decoder_layers = MaxLayers, !.max_sentences = 1]
    /\ call = Idle

\* forward, glat carrying context_p, lines 138-166: encoder, length prediction,
\* tgt_mask, the no-gradient probe pass and the keep probability
ForwardProbe ==
    /\ args.model = "nat_sd_glat_anneal"
    /\ call = Idle
    /\ \E tgt_tokens \in GlatTgtBatches(args), glat \in GlatDicts :
        /\ GlatBranch(glat) = "context_p"
        /\ \E pred_tokens \in PredTokens(tgt_tokens) :
             LET same_num == SameNum(pred_tokens, tgt_tokens)
                 seq_lens == SeqLens(tgt_tokens)
                 context_p == glat.context_p
             IN  call' = [op |-> "forward",
                          pc |-> "probed",
                          context_p |-> context_p,
                          tgt_tokens |-> tgt_tokens,
                          prev_output_tokens |-> FullMask(tgt_tokens),
                          tgt_mask |-> NonPad(tgt_tokens),
                          pred_tokens |-> pred_tokens,
                          same_num |-> same_num,
                          seq_lens |-> seq_lens,
                          keep_prob |-> KeepProb(same_num, seq_lens, context_p),
                          decoder_passes |-> 1]
    /\ UNCHANGED args

\* forward, lines 168-255: the sampled mask, the revised pair, the per-layer
\* accuracies and weights, the main decoder pass and ret_val.  train_ratio is
\* read under fix_schedule only.
ForwardGlance ==
    /\ call.op = "forward"
    /\ call.pc = "probed"
    /\ \E keep_word_mask \in KeepWordMasks(call.keep_prob, call.tgt_tokens),
          train_ratio \in IF args.fix_schedule THEN TrainRatios ELSE {NoTrainRatio} :
        \E glat_tgt_tokens \in {GlatTgtTokens(call.tgt_tokens, keep_word_mask)} :
        \E all_layer_acc_list \in
              {[l \in 1 .. args.decoder_layers |->
                  PerLayerAcc(LayerPredTokens(call.pred_tokens, l, args.decoder_layers),
                              glat_tgt_tokens, call.tgt_mask)]} :
        \E all_layer_weight \in {AllLayerWeight(all_layer_acc_list, train_ratio, args)} :
          LET glat_prev_output_tokens ==
                  GlatPrevOutputTokens(call.prev_output_tokens, call.tgt_tokens, keep_word_mask)
              word_ins_out_list ==
                  IF args.training
                  THEN DecoderForwardRows(all_layer_weight, args)[0]
                  ELSE DecoderForward(NoWeights, args)
          IN  IF args.fix_schedule /\ ~train_ratio.given
              THEN call' = [op |-> "forward",
                            pc |-> "raised",
                            raised |-> "TypeError",
                            decoder_passes |-> call.decoder_passes]
              ELSE call' = [op |-> "forward",
                            pc |-> "returned",
                            context_p |-> call.context_p,
                            tgt_tokens |-> call.tgt_tokens,
                            prev_output_tokens |-> call.prev_output_tokens,
                            pred_tokens |-> call.pred_tokens,
                            keep_prob |-> call.keep_prob,
                            keep_word_mask |-> keep_word_mask,
                            decoder_input |-> glat_prev_output_tokens,
                            all_layer_acc_list |-> all_layer_acc_list,
                            all_layer_weight |-> all_layer_weight,
                            train_ratio |-> train_ratio,
                            feed_forward_weights |->
                                IF args.training
                                THEN [given |-> TRUE, list |-> all_layer_weight]
                                ELSE NoWeights,
                            decoder_passes |-> call.decoder_passes + 1,
                            word_ins |-> WordIns(word_ins_out_list, glat_tgt_tokens,
                                                 call.tgt_mask, args)]
    /\ UNCHANGED args

\* forward, glat carrying schedule and no context_p, lines 138-153 and 204-205
ForwardSchedule ==
    /\ args.model = "nat_sd_glat_anneal"
    /\ call = Idle
    /\ \E tgt_tokens \in GlatTgtBatches(args), glat \in GlatDicts :
        /\ GlatBranch(glat) = "schedule"
        /\ call' = [op |-> "forward",
                    pc |-> "raised",
                    raised |-> "NotImplementedError",
                    glat |-> glat,
                    tgt_tokens |-> tgt_tokens,
                    decoder_passes |-> 0]
    /\ UNCHANGED args

\* forward without glancing, lines 138-153 and 218-255: in training the main
\* pass reads all_layer_weight, which only the context_p branch assigns
ForwardNoGlat ==
    /\ args.model = "nat_sd_glat_anneal"
    /\ call = Idle
    /\ \E tgt_tokens \in GlatTgtBatches(args), glat \in GlatDicts :
        /\ GlatBranch(glat) = "none"
        /\ IF args.training
           THEN call' = [op |-> "forward",
                         pc |-> "raised",
                         raised |-> "UnboundLocalError",
                         glat |-> glat,
                         tgt_tokens |-> tgt_tokens,
                         decoder_passes |-> 0]
           ELSE call' = [op |-> "forward",
                         pc |-> "done",
                         glat |-> glat,
                         tgt_tokens |-> tgt_tokens,
                         decoder_input |-> FullMask(tgt_tokens),
                         feed_forward_weights |-> NoWeights,
                         decoder_passes |-> 1,
                         word_ins |-> WordIns(DecoderForward(NoWeights, args), tgt_tokens,
                                              NonPad(tgt_tokens), args)]
    /\ UNCHANGED args

\* forward returns ret_val or the exception propagates; the call is over
ForwardReturn ==
    /\ call.op = "forward"
    /\ call.pc \in {"returned", "done", "raised"}
    /\ call' = Idle
    /\ UNCHANGED args

NextGlat == ForwardProbe \/ ForwardGlance \/ ForwardSchedule \/ ForwardNoGlat \/ ForwardReturn

SpecGlat == InitGlat /\ [][NextGlat]_vars

\* every combination of training mode and weight rule, one sentence per batch
InitGlatModes ==
    /\ args \in {[GlatDefault EXCEPT !.decoder_layers = MaxLayers,
                                     !.max_sentences = 1,
                                     !.training = t,
                                     !.fix_schedule = f,
                                     !.always_half = h] : <<t, f, h>> \in BOOLEAN \X BOOLEAN \X BOOLEAN}
    /\ call = Idle

SpecGlatModes == InitGlatModes /\ [][NextGlat]_vars

\* every decoder depth from one layer on, in training and in eval mode
InitGlatLayers ==
    /\ args \in {[GlatDefault EXCEPT !.decoder_layers = n,
                                     !.max_sentences = 1,
                                     !.training = t] :
                    <<n, t>> \in (1 .. MaxLayers) \X BOOLEAN}
    /\ call = Idle

SpecGlatLayers == InitGlatLayers /\ [][NextGlat]_vars

(***************************************************************************)
(* nat_ctc_sd: sequence_ctc_loss_with_logits.  The value F.ctc_loss        *)
(* returns is drawn by the caller from CtcLossOutcomes; the masks, the      *)
(* lengths, the count of invalid samples and the diagnostic are computed.  *)
(***************************************************************************)
CtcLossValues == {0, 1, 2}

\* (mask.bool()).long().sum(1)
MaskLengths(mask) == [b \in DOMAIN mask |-> Cardinality({j \in DOMAIN mask[b] : mask[b][j]})]

\* F.ctc_loss(..., reduction="mean", zero_infinity=True): an example whose
\* input is shorter than its target has no alignment and contributes zero
CtcLossOutcomes(logit_lengths, target_lengths) ==
    IF \A b \in DOMAIN logit_lengths : logit_lengths[b] < target_lengths[b]
    THEN {0}
    ELSE CtcLossValues

\* (logit_lengths < target_lengths).long().sum()
NInvalidSamples(logit_lengths, target_lengths) ==
    Cardinality({b \in DOMAIN logit_lengths : logit_lengths[b] < target_lengths[b]})

OnInvalidSamplesRaise(n_invalid_samples) ==
    [warned |-> n_invalid_samples > 0, raised |-> n_invalid_samples > 0]

\* if n_invalid_samples > 0: logger.warning(...)   # raise ValueError
OnInvalidSamples(n_invalid_samples) ==
    [warned |-> n_invalid_samples > 0, raised |-> FALSE]

sequence_ctc_loss_with_logits(logit_mask, target_mask, ctc_loss) ==
    LET logit_lengths == MaskLengths(logit_mask)
        target_lengths == MaskLengths(target_mask)
        n_invalid_samples == NInvalidSamples(logit_lengths, target_lengths)
        diagnostic == OnInvalidSamples(n_invalid_samples)
    IN  [logit_lengths |-> logit_lengths,
         target_lengths |-> target_lengths,
         n_invalid_samples |-> n_invalid_samples,
         warned |-> diagnostic.warned,
         raised |-> diagnostic.raised,
         loss |-> ctc_loss]

\* masks [B, T] whose rows are True on a prefix of at least min columns
PrefixMasks(B, T, min) ==
    [0 .. B - 1 -> {[j \in 0 .. T - 1 |-> j < n] : n \in min .. T}]

InitCtcLoss ==
    /\ args = CtcDefault
    /\ call = Idle

SequenceCtcLoss ==
    /\ args.model = "nat_ctc_sd"
    /\ call = Idle
    /\ \E B \in 1 .. MaxBatch, T \in 1 .. MaxSrcLen, U \in 2 .. MaxTgtLen :
        \E logit_mask \in PrefixMasks(B, T, 1), target_mask \in PrefixMasks(B, U, 2) :
          \E ctc_loss \in CtcLossOutcomes(MaskLengths(logit_mask), MaskLengths(target_mask)) :
             call' = [op |-> "sequence_ctc_loss_with_logits",
                      logit_mask |-> logit_mask,
                      target_mask |-> target_mask,
                      out |-> sequence_ctc_loss_with_logits(logit_mask, target_mask, ctc_loss)]
    /\ UNCHANGED args

NextCtcLoss == SequenceCtcLoss \/ Return

SpecCtcLoss == InitCtcLoss /\ [][NextCtcLoss]_vars

(***************************************************************************)
(* nat_ctc_sd: NATransformerModel.forward.                                 *)
(***************************************************************************)
\* the shared decoder returns one logits tensor per decoder layer
CtcDecoderListLength(a) == a.decoder_layers

RECURSIVE SumSeq(_)
SumSeq(q) == IF q = <<>> THEN 0 ELSE Head(q) + SumSeq(Tail(q))

\* all_sample_ctc_loss / len(output_logits_list)
CrossLayerSampleLoss(losses, num_decoder_layer, a) ==
    Frac(SumSeq(losses), num_decoder_layer)

\* all_layer_ctc_loss / normalized_factor, factor = 1 per layer
AllLayerLoss(losses) == Frac(SumSeq(losses), Len(losses))

\* source rows of one word type: forward reads the source through its non-pad count
TrainSrcBatches ==
    UNION {[0 .. B - 1 -> {row \in SrcRows(S) : \A j \in DOMAIN row : row[j] # WordB}] :
            <<B, S>> \in (1 .. MaxTrainBatch) \X (1 .. MaxSrcLen)}

\* the prev_output_tokens argument of forward: the target itself or the target
\* with its words masked by unk
GivenPrevOutputTokens(tgt_tokens) == {tgt_tokens, FullMask(tgt_tokens)}

PrevOutputTokensAsGiven(prev_output_tokens, src_tokens, a) == prev_output_tokens

\* prev_output_tokens = self.initialize_output_tokens_by_src_tokens(src_tokens)
RebuiltPrevOutputTokens(prev_output_tokens, src_tokens, a) ==
    initialize_output_tokens_by_src_tokens(src_tokens, a)

\* train_ratio as the trainer passes it to nat_ctc_sd: None or a ratio in percent
CtcTrainRatios == {NoTrainRatio, [given |-> TRUE, value |-> 5]}

InitCtcForward ==
    /\ args \in {[CtcDefault EXCEPT !.src_upsample_scale = k,
                                    !.num_cross_layer_sample = n,
                                    !.decoder_layers = l] :
                    <<k, n, l>> \in (1 .. MaxScale) \X (0 .. MaxSamples) \X (1 .. MaxLayers)}
    /\ call = Idle

\* forward, lines 326-346: train_ratio kept on encoder and decoder, the skeleton
\* from src_tokens, encoder, decoder, masks
ForwardCtcDecode ==
    /\ args.model = "nat_ctc_sd"
    /\ call = Idle
    /\ \E src_tokens \in TrainSrcBatches, tgt_tokens \in TgtBatches,
          train_ratio \in CtcTrainRatios :
        \E given_prev_output_tokens \in GivenPrevOutputTokens(tgt_tokens) :
          /\ DOMAIN src_tokens = DOMAIN tgt_tokens
          /\ LET prev_output_tokens ==
                     RebuiltPrevOutputTokens(given_prev_output_tokens, src_tokens, args)
             IN  call' = [op |-> "forward",
                          pc |-> "decoded",
                          src_tokens |-> src_tokens,
                          tgt_tokens |-> tgt_tokens,
                          given_prev_output_tokens |-> given_prev_output_tokens,
                          prev_output_tokens |-> prev_output_tokens,
                          prev_output_tokens_mask |-> NonPad(prev_output_tokens),
                          target_mask |-> NonPad(tgt_tokens),
                          num_decoder_layer |-> CtcDecoderListLength(args)]
          /\ args' = IF train_ratio.given
                     THEN [args EXCEPT !.encoder_train_ratio = train_ratio,
                                       !.decoder_train_ratio = train_ratio]
                     ELSE args

\* forward, lines 348-413: one CTC loss per sample or per layer, and ret_val
ForwardCtcLoss ==
    /\ call.op = "forward"
    /\ call.pc = "decoded"
    /\ LET sampling == args.num_cross_layer_sample # 0
           n_calls == IF sampling THEN args.num_cross_layer_sample ELSE call.num_decoder_layer
           outcomes == CtcLossOutcomes(MaskLengths(call.prev_output_tokens_mask),
                                       MaskLengths(call.target_mask))
       IN  \E ctc \in [1 .. n_calls -> outcomes] :
              LET calls == [c \in 1 .. n_calls |->
                              sequence_ctc_loss_with_logits(call.prev_output_tokens_mask,
                                                            call.target_mask, ctc[c])]
                  losses == [c \in 1 .. n_calls |-> calls[c].loss]
              IN  call' = [op |-> "forward",
                           pc |-> "returned",
                           calls |-> calls,
                           ctc_loss |-> IF sampling
                                        THEN CrossLayerSampleLoss(losses, call.num_decoder_layer, args)
                                        ELSE AllLayerLoss(losses)]
    /\ UNCHANGED args

NextCtcForward == ForwardCtcDecode \/ ForwardCtcLoss \/ ForwardReturn

SpecCtcForward == InitCtcForward /\ [][NextCtcForward]_vars

(***************************************************************************)
(* The entry points of iterative refinement: regenerate_length_beam and    *)
(* forward_decoder of both models.                                         *)
(*                                                                         *)
(* A DecoderOut is a named tuple of references.  heap maps a reference to  *)
(* the tensor or list it names, so an in-place update (masked_scatter_,    *)
(* list.append) is seen through every alias of the object, and _replace    *)
(* builds a new tuple around the references it is given.                   *)
(***************************************************************************)
MaxBeamSize == 3

None == "None"

Alloc(heap, ref, value) == [r \in DOMAIN heap \cup {ref} |-> IF r = ref THEN value ELSE heap[r]]

\* the state the driver hands over: tokens, zero scores and, when history is
\* retained, the list [prev_output_tokens]
GivenState(withHistory) ==
    [output_tokens |-> "output_tokens",
     output_scores |-> "output_scores",
     attn |-> None,
     step |-> 0,
     max_step |-> 0,
     history |-> IF withHistory THEN "history" ELSE None]

GivenHeap(output_tokens, withHistory) ==
    LET heap == Alloc(Alloc(<<>>, "output_tokens", output_tokens),
                      "output_scores", ZerosLike(output_tokens))
    IN  IF withHistory THEN Alloc(heap, "history", <<output_tokens>>) ELSE heap

\* source rows of one word type, padding on the left
InferSrcBatches ==
    UNION {[0 .. B - 1 -> {[j \in 0 .. S - 1 |-> IF j < S - n THEN pad ELSE WordA] : n \in 1 .. S}] :
            <<B, S>> \in (1 .. MaxBatch) \X (1 .. MaxSrcLen)}

\* the token tensors initialize_output_tokens returns
GivenTokens(a) ==
    IF a.model = "nat_ctc_sd"
    THEN {initialize_output_tokens_by_src_tokens(src_tokens, a) : src_tokens \in InferSrcBatches}
    ELSE {Skeleton(length_tgt) :
            length_tgt \in UNION {[0 .. B - 1 -> 2 .. MaxPredLen] : B \in 1 .. MaxBatch}}

LengthBeamRowMajorByOffset(length_tgt, beam_size) ==
    LET B == Cardinality(DOMAIN length_tgt)
    IN  [r \in 0 .. B * beam_size - 1 |->
            ClampMin(length_tgt[r % B] + (r \div B) - (beam_size \div 2), 2)]

LengthBeamUncentred(length_tgt, beam_size) ==
    [r \in 0 .. Cardinality(DOMAIN length_tgt) * beam_size - 1 |->
        ClampMin(length_tgt[r \div beam_size] + (r % beam_size), 2)]

\* (length_tgt[:, None] + new_arange(length_tgt, 1, beam_size) - beam_size // 2)
\*     .view(-1).clamp_(min=2)
LengthBeam(length_tgt, beam_size) ==
    [r \in 0 .. Cardinality(DOMAIN length_tgt) * beam_size - 1 |->
        ClampMin(length_tgt[r \div beam_size] + (r % beam_size) - (beam_size \div 2), 2)]

LengthBeamOf(output_tokens, beam_size) ==
    LengthBeam([b \in DOMAIN output_tokens |-> CountNonPad(output_tokens[b])], beam_size)

\* regenerate_length_beam, the same code in both models
regenerate_length_beam(decoder_out, heap, beam_size) ==
    LET output_tokens == heap[decoder_out.output_tokens]
        length_tgt == LengthBeamOf(output_tokens, beam_size)
        initial_output_tokens == Skeleton(length_tgt)
        initial_output_scores == ZerosLike(initial_output_tokens)
    IN  [heap |-> Alloc(Alloc(heap, "initial_output_tokens", initial_output_tokens),
                        "initial_output_scores", initial_output_scores),
         out |-> [decoder_out EXCEPT !.output_tokens = "initial_output_tokens",
                                     !.output_scores = "initial_output_scores"]]

\* list[i] of Python, i negative counting from the end
PyIndex(list, i) == IF i < 0 THEN list[Len(list) + i + 1] ELSE list[i + 1]

\* the positions of mask set before (b, j) in row-major order
Rank(mask, b, j) ==
    Cardinality({p \in (DOMAIN mask) \X (DOMAIN mask[b]) :
                    /\ mask[p[1]][p[2]]
                    /\ p[1] < b \/ (p[1] = b /\ p[2] < j)})

\* x[mask]: the selected elements as a one-dimensional tensor, in row-major order
MaskedSelect(x, mask) ==
    LET W == Width(mask)
        positions == [k \in 1 .. Cardinality(DOMAIN mask) * W |-> <<(k - 1) \div W, (k - 1) % W>>]
        Selected(p) == mask[p[1]][p[2]]
        selected == SelectSeq(positions, Selected)
    IN  [k \in 1 .. Len(selected) |-> x[selected[k][1]][selected[k][2]]]

MaskedScatterEverywhere(x, mask, source) ==
    [b \in DOMAIN x |-> [j \in DOMAIN x[b] |->
        IF Len(source) > 0 THEN source[(Rank(mask, b, j) % Len(source)) + 1] ELSE x[b][j]]]

\* x.masked_scatter_(mask, source): the elements of source, in order, at the
\* positions where mask is set
MaskedScatter(x, mask, source) ==
    [b \in DOMAIN x |-> [j \in DOMAIN x[b] |->
        IF mask[b][j] THEN source[Rank(mask, b, j) + 1] ELSE x[b][j]]]

\* the argmax the network produces: the tokens repeat in runs of r, the score
\* of a position names the layer, the row and the column it was computed for
Vocabulary == <<WordA, WordB, eos>>

Runs == {1, 2}

LogitsMax(output_logits, like, r) ==
    [tokens |-> [b \in DOMAIN like |-> [j \in DOMAIN like[b] |->
                    Vocabulary[(((j \div r) + b + output_logits.x.layers) % Len(Vocabulary)) + 1]]],
     scores |-> [b \in DOMAIN like |-> [j \in DOMAIN like[b] |->
                    100 * output_logits.x.layers + 10 * b + j + 1]]]

\* the decoder of nat_sd_shared: one logits tensor per decoder layer
CtcDecoderForward(a) ==
    [l \in 1 .. CtcDecoderListLength(a) |-> output_layer([layers |-> l, normed |-> FALSE])]

\* the argmax path of forward_decoder (nat_sd_glat_anneal 264-288, nat_ctc_sd
\* 434-447): masked_scatter_ on the given tensors, history.append of a clone
ScatterArgmax(decoder_out, heap, output_logits, r) ==
    LET output_tokens == decoder_out.output_tokens
        output_scores == decoder_out.output_scores
        history == decoder_out.history
        output_masks == NonPad(heap[output_tokens])
        max == LogitsMax(output_logits, heap[output_tokens], r)
        heap1 == [heap EXCEPT ![output_tokens] =
                     MaskedScatter(@, output_masks, MaskedSelect(max.tokens, output_masks))]
        heap2 == [heap1 EXCEPT ![output_scores] =
                     MaskedScatter(@, output_masks, MaskedSelect(max.scores, output_masks))]
        heap3 == IF history # None
                 THEN [heap2 EXCEPT ![history] = Append(@, heap2[output_tokens])]
                 ELSE heap2
    IN  [heap |-> heap3,
         out |-> [decoder_out EXCEPT !.output_tokens = output_tokens,
                                     !.output_scores = output_scores,
                                     !.attn = None,
                                     !.history = history]]

\* nat_sd_glat_anneal.NATransformerModel.forward_decoder
GlatForwardDecoder(decoder_out, heap, r, a) ==
    LET output_logits_list == DecoderForward(NoWeights, a)
        output_logits == PyIndex(output_logits_list, a.inference_decoder_layer)
    IN  ScatterArgmax(decoder_out, heap, output_logits, r)

\* the lengths ctc_decoder.decode may report for a row of output_length frames
TopBeamLens(output_length) == {output_length \div 2, output_length}

KeepBeyondLen(top_beam_tokens, top_beam_len) == top_beam_tokens

\* mask = arange(width) < top_beam_len; top_beam_tokens[~mask] = pad
TruncateToLen(top_beam_tokens, top_beam_len) ==
    [b \in DOMAIN top_beam_tokens |-> [j \in DOMAIN top_beam_tokens[b] |->
        IF j < top_beam_len[b] THEN top_beam_tokens[b][j] ELSE pad]]

Full(like, v) == [b \in DOMAIN like |-> [j \in DOMAIN like[b] |-> v]]

\* the beam path of forward_decoder (nat_ctc_sd 449-468); beam_results[:, 0, :]
\* holds the hypothesis and, from its length on, whatever the decoder left
BeamDecode(decoder_out, heap, output_logits, r, top_beam_len) ==
    LET output_tokens == decoder_out.output_tokens
        history == decoder_out.history
        beam_results_0 == LogitsMax(output_logits, heap[output_tokens], r).tokens
        top_beam_tokens == TruncateToLen(beam_results_0, top_beam_len)
        heap1 == Alloc(Alloc(heap, "top_beam_tokens", top_beam_tokens),
                       "beam_output_scores", Full(top_beam_tokens, 1))
        heap2 == IF history # None
                 THEN [heap1 EXCEPT ![history] = Append(@, heap1[output_tokens])]
                 ELSE heap1
    IN  [heap |-> heap2,
         out |-> [decoder_out EXCEPT !.output_tokens = "top_beam_tokens",
                                     !.output_scores = "beam_output_scores",
                                     !.attn = None,
                                     !.history = history]]

\* nat_ctc_sd.NATransformerModel.forward_decoder, after _beam_width is set
CtcForwardDecoder(decoder_out, heap, r, top_beam_len, a) ==
    LET output_logits_list == CtcDecoderForward(a)
        output_logits == PyIndex(output_logits_list, a.inference_decoder_layer)
    IN  IF a.plain_ctc
        THEN ScatterArgmax(decoder_out, heap, output_logits, r)
        ELSE BeamDecode(decoder_out, heap, output_logits, r, top_beam_len)


InferenceLayers == {-1, 0}

InitInference ==
    /\ args \in {[GlatDefault EXCEPT !.decoder_layers = MaxLayers,
                                     !.inference_decoder_layer = i] : i \in InferenceLayers}
            \cup {[CtcDefault EXCEPT !.decoder_layers = MaxLayers,
                                     !.inference_decoder_layer = i,
                                     !.src_upsample_scale = k,
                                     !.copy_src_token = c,
                                     !.plain_ctc = p] :
                    <<i, k, c, p>> \in InferenceLayers \X (1 .. MaxScale) \X BOOLEAN \X BOOLEAN}
    /\ call = Idle

\* regenerate_length_beam(decoder_out, beam_size), either model
RegenerateLengthBeam ==
    /\ call = Idle
    /\ \E output_tokens \in GivenTokens(args), withHistory \in BOOLEAN,
          beam_size \in 1 .. MaxBeamSize :
          LET decoder_out == GivenState(withHistory)
              heap == GivenHeap(output_tokens, withHistory)
              result == regenerate_length_beam(decoder_out, heap, beam_size)
          IN  call' = [op |-> "regenerate_length_beam",
                       decoder_out |-> decoder_out,
                       given |-> heap,
                       beam_size |-> beam_size,
                       heap |-> result.heap,
                       out |-> result.out]
    /\ UNCHANGED args

\* nat_sd_glat_anneal: forward_decoder(decoder_out, encoder_out)
ForwardDecoderGlat ==
    /\ args.model = "nat_sd_glat_anneal"
    /\ call = Idle
    /\ \E output_tokens \in GivenTokens(args), withHistory \in BOOLEAN, r \in Runs :
          LET decoder_out == GivenState(withHistory)
              heap == GivenHeap(output_tokens, withHistory)
              output_logits == PyIndex(DecoderForward(NoWeights, args),
                                       args.inference_decoder_layer)
              result == GlatForwardDecoder(decoder_out, heap, r, args)
          IN  call' = [op |-> "forward_decoder",
                       path |-> "argmax",
                       decoder_out |-> decoder_out,
                       given |-> heap,
                       max |-> LogitsMax(output_logits, output_tokens, r),
                       heap |-> result.heap,
                       out |-> result.out]
    /\ UNCHANGED args

\* F.softmax(input, -1) of one logits tensor
Softmax(input) == [softmax |-> input]

\* beam_size of get_search_results: None or a width
NoBeamSize == [given |-> FALSE, value |-> 0]

BeamSizes == {NoBeamSize} \cup {[given |-> TRUE, value |-> w] : w \in 1 .. MaxBeamSize}

\* nat_ctc_sd: forward_decoder(decoder_out, encoder_out)
ForwardDecoderCtc ==
    /\ args.model = "nat_ctc_sd"
    /\ call = Idle
    /\ \E output_tokens \in GivenTokens(args), withHistory \in BOOLEAN, r \in Runs :
        \E top_beam_len \in [DOMAIN output_tokens ->
                                UNION {TopBeamLens(CountNonPad(output_tokens[b])) :
                                          b \in DOMAIN output_tokens}] :
          /\ \A b \in DOMAIN output_tokens :
                IF args.plain_ctc
                THEN top_beam_len[b] = 0
                ELSE top_beam_len[b] \in TopBeamLens(CountNonPad(output_tokens[b]))
          /\ LET decoder_out == GivenState(withHistory)
                 heap == GivenHeap(output_tokens, withHistory)
                 output_logits == PyIndex(CtcDecoderForward(args), args.inference_decoder_layer)
                 result == CtcForwardDecoder(decoder_out, heap, r, top_beam_len, args)
             IN  call' = [op |-> "forward_decoder",
                          path |-> IF args.plain_ctc THEN "argmax" ELSE "beam",
                          decoder_out |-> decoder_out,
                          given |-> heap,
                          max |-> LogitsMax(output_logits, output_tokens, r),
                          decode_calls |-> IF args.plain_ctc THEN <<>>
                                           ELSE <<Softmax(output_logits)>>,
                          top_beam_len |-> top_beam_len,
                          heap |-> result.heap,
                          out |-> result.out]
    /\ args' = [args EXCEPT !.beam_width = args.ctc_beam_size]

\* nat_ctc_sd: get_search_results(decoder_out, encoder_out, beam_size).  The
\* beam width is written to ctc_decoder or read from it; output_logits is the
\* list the decoder returns, and F.softmax of a list raises before decode
GetSearchResults ==
    /\ args.model = "nat_ctc_sd"
    /\ call = Idle
    /\ \E output_tokens \in GivenTokens(args), beam_size \in BeamSizes :
          LET beam_width == IF beam_size.given THEN beam_size.value ELSE args.beam_width
              output_logits == CtcDecoderForward(args)
          IN  /\ call' = [op |-> "get_search_results",
                          pc |-> "raised",
                          raised |-> "AttributeError",
                          output_tokens |-> output_tokens,
                          beam_size |-> beam_size,
                          beam_width |-> beam_width,
                          output_logits |-> output_logits,
                          decode_calls |-> <<>>]
              /\ args' = [args EXCEPT !.beam_width = beam_width]

\* the driver takes the returned state, or the exception propagates
InferenceReturn ==
    /\ call.op \in {"regenerate_length_beam", "forward_decoder", "get_search_results"}
    /\ call' = Idle
    /\ UNCHANGED args

NextInference ==
    RegenerateLengthBeam \/ ForwardDecoderGlat \/ ForwardDecoderCtc \/ InferenceReturn

SpecInference == InitInference /\ [][NextInference]_vars

(***************************************************************************)
(* nat_ctc_sd: one model object serving forward, forward_decoder and       *)
(* get_search_results in any order; its attributes outlive each call.      *)
(* Two decoder layers, so that the first and the last logits differ.       *)
(***************************************************************************)
InitCtcSession ==
    /\ args \in {[CtcDefault EXCEPT !.decoder_layers = 2,
                                     !.inference_decoder_layer = i,
                                     !.ctc_beam_size = w,
                                     !.beam_width = w] :
                    <<i, w>> \in InferenceLayers \X (1 .. MaxBeamSize)}
    /\ call = Idle

NextCtcSession ==
    \/ ForwardCtcDecode \/ ForwardCtcLoss \/ ForwardReturn
    \/ ForwardDecoderCtc \/ GetSearchResults \/ InferenceReturn

SpecCtcSession == InitCtcSession /\ [][NextCtcSession]_vars

(***************************************************************************)
(* nat_sd_glat_anneal: forward_length_prediction on its own, called with   *)
(* a target (training) and then with the greedy bucket of a length head    *)
(* that reproduces that target (inference).  Lengths reach the ends of the *)
(* bucket range.                                                           *)
(***************************************************************************)
\* target lengths: short ones and the ones around the bias and the last bucket
TargetLengths ==
    (0 .. MaxTgtLen) \cup {LengthOffsetBias, NumLengthBuckets - 1, NumLengthBuckets}

\* encoder outputs without a padding mask: every source row is T frames long
UnmaskedEncoderOuts ==
    {[T |-> T, B |-> B, encoder_padding_mask |-> <<>>] :
        <<T, B>> \in ({1, MaxSrcLen, LengthOffsetBias + MaxTgtLen + 1, NumLengthBuckets})
                        \X (1 .. MaxTrainBatch)}

MaskedEncoderOuts ==
    {EncoderOut([b \in DOMAIN t |-> [j \in DOMAIN t[b] |-> t[b][j] = pad]], TRUE) :
        t \in {s \in InferSrcBatches : Cardinality(DOMAIN s) <= MaxTrainBatch}}

InitLength ==
    /\ args \in GlatArgs
    /\ call = Idle

\* forward_length_prediction(length_out, encoder_out, tgt_tokens)
LengthTarget ==
    /\ args.model = "nat_sd_glat_anneal"
    /\ call = Idle
    /\ \E encoder_out \in UnmaskedEncoderOuts \cup MaskedEncoderOuts :
        \E tgt_lengs \in [0 .. encoder_out.B - 1 -> TargetLengths] :
          call' = [op |-> "forward_length_prediction",
                   pc |-> "target",
                   encoder_out |-> encoder_out,
                   tgt_lengs |-> tgt_lengs,
                   length_tgt |-> forward_length_prediction(tgt_lengs, encoder_out, TRUE,
                                                            tgt_lengs, args)]
    /\ UNCHANGED args

\* forward_length_prediction(length_out, encoder_out) at inference, the argmax
\* of length_out being the bucket the head was trained on
LengthGreedy ==
    /\ call.op = "forward_length_prediction"
    /\ call.pc = "target"
    /\ call' = [op |-> "forward_length_prediction",
                pc |-> "greedy",
                encoder_out |-> call.encoder_out,
                tgt_lengs |-> call.tgt_lengs,
                pred_lengs |-> call.length_tgt,
                length_tgt |-> forward_length_prediction(call.length_tgt, call.encoder_out,
                                                         FALSE, call.length_tgt, args)]
    /\ UNCHANGED args

LengthReturn ==
    /\ call.op = "forward_length_prediction"
    /\ call' = Idle
    /\ UNCHANGED args

NextLength == LengthTarget \/ LengthGreedy \/ LengthReturn

SpecLength == InitLength /\ [][NextLength]_vars

(***************************************************************************)
(* The whole program: a model of either kind, under any of the             *)
(* configurations above, serving any of its operations.                    *)
(***************************************************************************)
Init ==
    InitInitialize \/ InitDecoder \/ InitGlat \/ InitCtcLoss \/ InitCtcForward \/ InitInference
    \/ InitLength \/ InitGlatModes \/ InitCtcSession \/ InitGlatLayers

Next ==
    \/ NextInitialize \/ NextDecoder \/ NextGlat \/ NextCtcLoss \/ NextCtcForward
    \/ NextInference \/ NextLength \/ NextCtcSession

Spec == Init /\ [][Next]_vars

(***************************************************************************)
(* Claims about the initializers.                                          *)
(***************************************************************************)
IsSkeletonCall ==
    /\ call.op = "initialize_output_tokens"
    /\ args.model = "nat_ctc_sd" => ~args.copy_src_token

\* the length the claim assigns to row b of the skeleton in call
ClaimedLength(b) ==
    IF args.model = "nat_ctc_sd"
    THEN LET n == CountNonPad(call.src_tokens[b]) * args.src_upsample_scale
         IN  IF n < 2 THEN 2 ELSE n
    ELSE LET src_len == IF call.encoder_out.encoder_padding_mask = <<>>
                        THEN call.encoder_out.T
                        ELSE Cardinality({j \in 0 .. call.encoder_out.T - 1 :
                                 ~call.encoder_out.encoder_padding_mask[1][b][j]})
             n == IF args.pred_length_offset
                  THEN call.pred_lengs[b] - 128 + src_len
                  ELSE call.pred_lengs[b]
         IN  IF n < 2 THEN 2 ELSE n

\* C1: every row b of a skeleton built by initialize has bos at column 0, eos
\* at column L_b - 1 and nowhere else, and pad at exactly the columns >= L_b,
\* where L_b is the row's length floored at 2.
C1_SkeletonShape ==
    IsSkeletonCall =>
        \A b \in DOMAIN call.out.output_tokens :
            LET row == call.out.output_tokens[b]
                L == ClaimedLength(b)
            IN  /\ L - 1 \in DOMAIN row
                /\ row[0] = bos
                /\ \A j \in DOMAIN row : (row[j] = eos) <=> (j = L - 1)
                /\ \A j \in DOMAIN row : (row[j] = pad) <=> (j >= L)

\* a glancing-model skeleton with one row floored at 2 and padded, beside a longer row
C1_Witness ==
    /\ IsSkeletonCall
    /\ args.model = "nat_sd_glat_anneal"
    /\ args.pred_length_offset
    /\ \E b, c \in DOMAIN call.out.output_tokens :
          /\ call.pred_lengs[b] - 128 + SrcLengs(call.encoder_out)[b] < 2
          /\ 2 \in DOMAIN call.out.output_tokens[b]
          /\ call.out.output_tokens[b][2] = pad
          /\ call.out.output_tokens[c][2] = eos

\* C2: in non-copy mode the CTC skeleton has width max_b max(2, nonpad(src_b) * k)
\* and every column strictly between 0 and L_b - 1 holds unk.
C2_CtcSkeletonWidthAndUnk ==
    (IsSkeletonCall /\ args.model = "nat_ctc_sd") =>
        LET out == call.out.output_tokens
            T == MaxOf({ClaimedLength(b) : b \in DOMAIN call.src_tokens})
        IN  /\ DOMAIN out = DOMAIN call.src_tokens
            /\ \A b \in DOMAIN out :
                  /\ DOMAIN out[b] = 0 .. T - 1
                  /\ \A j \in DOMAIN out[b] :
                        (0 < j /\ j < ClaimedLength(b) - 1) => out[b][j] = unk

\* a CTC skeleton with a floored row (one source token, scale 1) beside a row
\* long enough to hold unk
C2_Witness ==
    /\ IsSkeletonCall
    /\ args.model = "nat_ctc_sd"
    /\ \E b, c \in DOMAIN call.src_tokens :
          /\ CountNonPad(call.src_tokens[b]) * args.src_upsample_scale = 1
          /\ ClaimedLength(c) >= 3
          /\ 2 \in DOMAIN call.out.output_tokens[c]
          /\ call.out.output_tokens[c][1] = unk
          /\ call.out.output_tokens[b][2] = pad

(***************************************************************************)
(* Claims about the decoder core.                                          *)
(***************************************************************************)
ExtractDone == call.op = "extract_features" /\ call.pc = "done"

LayersRun == Len(call.layer_inputs)

EarlyExitInRange ==
    call.early_exit.given =>
        (1 <= call.early_exit.value /\ call.early_exit.value <= args.decoder_layers)

\* C3 as stated: for no early exit and for every early exit 1 <= e <= #layers,
\* the per-layer logits list has length (number of layers run) + 1.
C3_LengthIsLayersRunPlusOne ==
    (ExtractDone /\ EarlyExitInRange) =>
        Len(call.all_layer_output_logits) = LayersRun + 1

\* C3 amended: for no early exit the list has as many entries as the decoder
\* has layers, and for an early exit 1 <= e <= #layers it has e entries: the
\* number of layers run, not one more.
C3_LengthIsEarlyExit ==
    (ExtractDone /\ EarlyExitInRange) =>
        Len(call.all_layer_output_logits) =
            (IF call.early_exit.given THEN call.early_exit.value ELSE args.decoder_layers)

\* an early exit strictly inside the stack, after two layers
C3_Witness ==
    /\ ExtractDone
    /\ call.early_exit.given
    /\ call.early_exit.value = 2
    /\ args.decoder_layers = 3
    /\ call.x.layers = 2

\* C4 as stated: for every early-exit value the list length equals the number
\* of decoder layers executed.
C4_LengthIsLayersRun ==
    ExtractDone => Len(call.all_layer_output_logits) = LayersRun

\* C4 amended: whenever at least one layer is executed, the list length equals
\* the number of layers executed: layer 0 adds nothing, each later layer adds
\* the entry computed from its input state, and the last entry is the terminal one.
C4_LengthIsLayersRunWhenAnyRuns ==
    (ExtractDone /\ LayersRun >= 1) =>
        /\ Len(call.all_layer_output_logits) = LayersRun
        /\ \A n \in 1 .. LayersRun :
              call.all_layer_output_logits[n].x.layers = n

\* the whole stack ran and the list holds feedback entries and the terminal one
C4_Witness ==
    /\ ExtractDone
    /\ ~call.early_exit.given
    /\ LayersRun = 3
    /\ Len(call.all_layer_output_logits) = 3

\* C5: the input of layer 0 is x with no y_hat mixed in, with or without a
\* weight list.
C5_LayerZeroNeverBlends ==
    (call.op = "extract_features" /\ LayersRun >= 1) =>
        call.layer_inputs[1].cy = 0

(***************************************************************************)
(* Claims about the glancing controller.                                   *)
(***************************************************************************)
Probed == call.op = "forward" /\ call.pc = "probed"

Glanced == call.op = "forward" /\ call.pc = "returned"

\* C6: for every example the keep probability lies in [0, context_p], it is 0
\* when same_num = seq_len, and same_num counts the agreeing positions among
\* the non-pad target positions only.
C6_KeepProbRange ==
    Probed =>
        \A b \in DOMAIN call.tgt_tokens :
            LET agreeing == {j \in DOMAIN call.tgt_tokens[b] :
                                /\ call.tgt_tokens[b][j] # pad
                                /\ call.pred_tokens[b][j] = call.tgt_tokens[b][j]}
                kp == call.keep_prob[b]
            IN  /\ call.same_num[b] = Cardinality(agreeing)
                /\ kp.den > 0
                /\ 0 <= kp.num
                /\ kp.num * call.context_p.den <= call.context_p.num * kp.den
                /\ (call.same_num[b] = call.seq_lens[b]) => kp.num = 0
                /\ kp.num * call.seq_lens[b] * call.context_p.den
                      = (call.seq_lens[b] - call.same_num[b]) * call.context_p.num * kp.den

\* the probe agrees with the target on a pad position and on some but not all
\* of the non-pad positions, with a positive context_p
C6_Witness ==
    /\ Probed
    /\ call.context_p.num > 0
    /\ \E b \in DOMAIN call.tgt_tokens :
          /\ \E j \in DOMAIN call.tgt_tokens[b] :
                call.tgt_tokens[b][j] = pad /\ call.pred_tokens[b][j] = pad
          /\ 0 < call.same_num[b]
          /\ call.same_num[b] < call.seq_lens[b]

C8_GlancedPositionsLeaveLoss ==
    Glanced =>
        \A idx \in DOMAIN call.word_ins :
            \A b \in DOMAIN call.tgt_tokens : \A j \in DOMAIN call.tgt_tokens[b] :
                IF call.keep_word_mask[b][j]
                THEN /\ call.word_ins[idx].tgt[b][j] = pad
                     /\ ~call.word_ins[idx].mask[b][j]
                ELSE /\ call.word_ins[idx].tgt[b][j] = call.tgt_tokens[b][j]
                     /\ call.word_ins[idx].mask[b][j] = (call.tgt_tokens[b][j] # pad)

(***************************************************************************)
(* Claims about the CTC loss.                                              *)
(***************************************************************************)
CtcForwardReturned ==
    call.op = "forward" /\ call.pc = "returned" /\ args.model = "nat_ctc_sd"

SumOfLosses == SumSeq([c \in DOMAIN call.calls |-> call.calls[c].loss])

\* C9: in cross-layer sampling mode with N >= 1 samples the reported CTC loss
\* is the sum of the N per-sample losses divided by N.
C9_SampleLossIsMeanOverSamples ==
    (CtcForwardReturned /\ args.num_cross_layer_sample >= 1) =>
        /\ Len(call.calls) = args.num_cross_layer_sample
        /\ call.ctc_loss.num * args.num_cross_layer_sample = SumOfLosses * call.ctc_loss.den

\* C10: sequence_ctc_loss_with_logits does not raise on a length mismatch: it
\* returns a loss, counts exactly the examples whose logit-mask length is
\* below their target length, and warns if and only if that count is positive.
C10_LengthMismatchCountedNotRaised ==
    call.op = "sequence_ctc_loss_with_logits" =>
        LET short == {b \in DOMAIN call.logit_mask :
                        Cardinality({j \in DOMAIN call.logit_mask[b] : call.logit_mask[b][j]})
                          < Cardinality({j \in DOMAIN call.target_mask[b] : call.target_mask[b][j]})}
        IN  /\ ~call.out.raised
            /\ call.out.loss \in CtcLossValues
            /\ call.out.n_invalid_samples = Cardinality(short)
            /\ call.out.warned <=> (Cardinality(short) > 0)

\* a batch in which one example is too short for its target and another is not
C10_Witness ==
    /\ call.op = "sequence_ctc_loss_with_logits"
    /\ call.out.n_invalid_samples = 1
    /\ Cardinality(DOMAIN call.logit_mask) = 2
    /\ call.out.warned
    /\ call.out.loss > 0

(***************************************************************************)
(* Claims about forward_decoder and regenerate_length_beam.                *)
(***************************************************************************)
IsForwardDecoder == call.op = "forward_decoder"

IsRegenerate == call.op = "regenerate_length_beam"

\* the caller's state object before and after the call, and the returned one
GivenBefore(field) == call.given[call.decoder_out[field]]

GivenAfter(field) == call.heap[call.decoder_out[field]]

Returned(field) == call.heap[call.out[field]]

\* C11: forward_decoder never mutates the state it is given: after the call the
\* given state's output_tokens, output_scores and history hold what they held
\* before.
C11_GivenStateUntouched ==
    IsForwardDecoder =>
        /\ GivenAfter("output_tokens") = GivenBefore("output_tokens")
        /\ GivenAfter("output_scores") = GivenBefore("output_scores")
        /\ call.decoder_out.history # None => GivenAfter("history") = GivenBefore("history")

\* C12: on the beam path the returned tokens are the top hypothesis over the
\* whole row: the decoded token below the reported length, pad from it on,
\* whatever the given row held there.
C12_BeamOutputIsTruncatedHypothesis ==
    (IsForwardDecoder /\ call.path = "beam") =>
        LET out == Returned("output_tokens")
            given == GivenBefore("output_tokens")
        IN  /\ DOMAIN out = DOMAIN given
            /\ \A b \in DOMAIN out :
                  /\ DOMAIN out[b] = DOMAIN given[b]
                  /\ \A j \in DOMAIN out[b] :
                        out[b][j] = IF j < call.top_beam_len[b]
                                    THEN call.max.tokens[b][j]
                                    ELSE pad

\* a given pad position below the reported length received a decoded token,
\* and a position beyond the length was cleared to pad
C12_Witness ==
    /\ IsForwardDecoder
    /\ call.path = "beam"
    /\ \E b \in DOMAIN GivenBefore("output_tokens") :
        \E j, k \in DOMAIN GivenBefore("output_tokens")[b] :
          /\ GivenBefore("output_tokens")[b][j] = pad
          /\ j < call.top_beam_len[b]
          /\ Returned("output_tokens")[b][j] # pad
          /\ k >= call.top_beam_len[b]
          /\ GivenBefore("output_tokens")[b][k] # pad
          /\ Returned("output_tokens")[b][k] = pad

\* the layer output_logits_list[inference_decoder_layer] names
ConfiguredLayer ==
    IF args.inference_decoder_layer < 0
    THEN args.decoder_layers + args.inference_decoder_layer + 1
    ELSE args.inference_decoder_layer + 1

BeamLengths(b) ==
    {CountNonPad(Returned("output_tokens")[r]) :
        r \in (b * call.beam_size) .. (b * call.beam_size + call.beam_size - 1)}

CurrentLength(b) == CountNonPad(GivenBefore("output_tokens")[b])

\* C14: the length hypotheses of an example are its current length plus the
\* offsets -(beam_size//2) .. +(beam_size//2 - 1), floored at 2, for every
\* beam_size.
C14_OffsetsUpToHalfMinusOne ==
    IsRegenerate =>
        \A b \in DOMAIN GivenBefore("output_tokens") :
            BeamLengths(b) =
                {ClampMin(CurrentLength(b) + o, 2) :
                    o \in (0 - (call.beam_size \div 2)) .. ((call.beam_size \div 2) - 1)}

\* C14 (amended): the offsets are -(beam_size//2) .. beam_size - 1 - beam_size//2,
\* which ends at beam_size//2 - 1 only for even beam_size.
C14_OffsetsAreArangeMinusHalf ==
    IsRegenerate =>
        \A b \in DOMAIN GivenBefore("output_tokens") :
            BeamLengths(b) =
                {ClampMin(CurrentLength(b) + o, 2) :
                    o \in (0 - (call.beam_size \div 2)) ..
                          (call.beam_size - 1 - (call.beam_size \div 2))}

\* an odd beam over a length whose hypotheses all clear the floor
C14_Witness ==
    /\ IsRegenerate
    /\ call.beam_size = 3
    /\ \E b \in DOMAIN GivenBefore("output_tokens") :
          /\ CurrentLength(b) = 3
          /\ BeamLengths(b) = {2, 3, 4}

\* C15: B examples give B * beam_size rows; row b * beam_size + j has length
\* max(2, n - beam_size//2 + j) for the current length n of example b, and is a
\* skeleton: bos at 0, eos at length - 1, pad from length on.
C15_BeamRowsAreConsecutiveSkeletons ==
    IsRegenerate =>
        LET out == Returned("output_tokens")
            B == Cardinality(DOMAIN GivenBefore("output_tokens"))
        IN  /\ DOMAIN out = 0 .. B * call.beam_size - 1
            /\ \A b \in 0 .. B - 1 : \A j \in 0 .. call.beam_size - 1 :
                  LET row == out[b * call.beam_size + j]
                      n == ClampMin(CurrentLength(b) - (call.beam_size \div 2) + j, 2)
                  IN  /\ n - 1 \in DOMAIN row
                      /\ row[0] = bos
                      /\ row[n - 1] = eos
                      /\ \A i \in DOMAIN row :
                            /\ (i >= n) => row[i] = pad
                            /\ (0 < i /\ i < n - 1) => row[i] = unk

\* two examples of different lengths under a beam of three
C15_Witness ==
    /\ IsRegenerate
    /\ call.beam_size = 3
    /\ Cardinality(DOMAIN GivenBefore("output_tokens")) = 2
    /\ CurrentLength(0) = 2
    /\ CurrentLength(1) = 3
    /\ CountNonPad(Returned("output_tokens")[2]) = 3
    /\ CountNonPad(Returned("output_tokens")[3]) = 2

(***************************************************************************)
(* Claims about forward_length_prediction.                                 *)
(***************************************************************************)
IsLengthCall == call.op = "forward_length_prediction"

OffsetWithoutMask ==
    /\ IsLengthCall
    /\ args.pred_length_offset
    /\ Len(call.encoder_out.encoder_padding_mask) = 0

\* C17: offset length prediction on an encoder output without a source padding
\* mask is fatal: the call yields no length.
C17_OffsetWithoutMaskIsFatal ==
    OffsetWithoutMask => "length_tgt" \notin DOMAIN call

\* C17 (amended): without a mask every source length is taken to be the number
\* of encoder frames T, and the call returns: the bucket clamp(tgt - T + 128,
\* 0, 255) with a target, the length bucket - 128 + T without.
C17_OffsetWithoutMaskUsesFrameCount ==
    OffsetWithoutMask =>
        \A b \in DOMAIN call.length_tgt :
            call.length_tgt[b] =
                IF call.pc = "target"
                THEN Clamp(call.tgt_lengs[b] - call.encoder_out.T + LengthOffsetBias,
                           0, NumLengthBuckets - 1)
                ELSE call.pred_lengs[b] - LengthOffsetBias + call.encoder_out.T

C17_Witness ==
    /\ OffsetWithoutMask
    /\ call.pc = "target"
    /\ call.encoder_out.T = MaxSrcLen
    /\ \E b \in DOMAIN call.length_tgt :
          /\ call.tgt_lengs[b] = MaxTgtLen
          /\ call.length_tgt[b] = LengthOffsetBias + MaxTgtLen - MaxSrcLen

\* the bucket before clamping
UnclampedBucket(b) ==
    IF args.pred_length_offset
    THEN call.tgt_lengs[b] - SrcLengs(call.encoder_out)[b] + LengthOffsetBias
    ELSE call.tgt_lengs[b]

\* C20: the training bucket lies in 0 .. 255, and when the unclamped bucket
\* already does, the inference conversion of that bucket gives back the target
\* length.
C20_LengthBucketRoundTrip ==
    IsLengthCall =>
        \A b \in DOMAIN call.length_tgt :
            /\ call.pc = "target" =>
                  call.length_tgt[b] \in 0 .. NumLengthBuckets - 1
            /\ (call.pc = "greedy" /\ UnclampedBucket(b) \in 0 .. NumLengthBuckets - 1) =>
                  call.length_tgt[b] = call.tgt_lengs[b]

\* a round trip in offset mode next to a row whose bucket was clamped and
\* does not come back
C20_Witness ==
    /\ IsLengthCall
    /\ call.pc = "greedy"
    /\ args.pred_length_offset
    /\ \E b \in DOMAIN call.length_tgt :
          /\ UnclampedBucket(b) \in 0 .. NumLengthBuckets - 1
          /\ UnclampedBucket(b) # call.tgt_lengs[b]
          /\ call.length_tgt[b] = call.tgt_lengs[b]

(***************************************************************************)
(* Claims about the modes of the glancing controller.                      *)
(***************************************************************************)
IsForward == call.op = "forward"

ScheduleOnly ==
    /\ IsForward
    /\ "glat" \in DOMAIN call
    /\ call.glat.given
    /\ "schedule" \in call.glat.keys
    /\ "context_p" \notin call.glat.keys

\* C16: forward with a glancing dictionary that has schedule and no context_p
\* raises NotImplementedError before any decoder pass and returns no losses.
C16_ScheduleRaisesBeforeDecoding ==
    ScheduleOnly =>
        /\ call.pc = "raised"
        /\ call.raised = "NotImplementedError"
        /\ call.decoder_passes = 0
        /\ "word_ins" \notin DOMAIN call

C16_Witness ==
    /\ ScheduleOnly
    /\ call.pc = "raised"
    /\ ~args.training

\* C18: outside training mode forward runs no probe pass and leaves the decoder
\* input and the target as they were given, whatever glat carries.
C18_NoGlancingOutsideTraining ==
    (IsForward /\ ~args.training) =>
        /\ call.pc # "probed"
        /\ call.pc = "returned" =>
              /\ call.decoder_passes = 1
              /\ call.decoder_input = call.prev_output_tokens
              /\ \A idx \in DOMAIN call.word_ins : call.word_ins[idx].tgt = call.tgt_tokens

\* C19: every per-layer weight (in percent) lies in 0 .. 50 and is the one of
\* the first rule that applies: min(50, 10 * train_ratio) under fix_schedule,
\* else 50 under always_half, else sqrt(layer accuracy) / 2.
C19_WeightRangeAndPriority ==
    Glanced =>
        \A l \in DOMAIN call.all_layer_weight : \A b \in DOMAIN call.all_layer_weight[l] :
            LET w == call.all_layer_weight[l][b]
                acc == call.all_layer_acc_list[l][b]
            IN  /\ 0 <= w
                /\ w <= 50
                /\ IF args.fix_schedule
                   THEN w = Min(50, 10 * call.train_ratio.value)
                   ELSE IF args.always_half
                        THEN w = 50
                        ELSE /\ w * w * acc.den <= 2500 * acc.num
                             /\ 2500 * acc.num < (w + 1) * (w + 1) * acc.den

\* both flags set: the schedule wins over the constant
C19_Witness ==
    /\ Glanced
    /\ args.fix_schedule
    /\ args.always_half
    /\ call.train_ratio.value = 2
    /\ call.all_layer_weight[1][0] = 20

\* the accuracy rule gives different layers different weights
C19_AccuracyWitness ==
    /\ Glanced
    /\ ~args.fix_schedule
    /\ ~args.always_half
    /\ call.all_layer_weight[1][0] = 0
    /\ call.all_layer_weight[Len(call.all_layer_weight)][0] \in 1 .. 49

(***************************************************************************)
(* Claims about one nat_ctc_sd model object over several calls.            *)
(***************************************************************************)
IsSearch == call.op = "get_search_results"

BeamPath == IsForwardDecoder /\ args.model = "nat_ctc_sd" /\ call.path = "beam"

\* C21: no attribute of the model carries over from one call to the next: between
\* calls the beam width is the configured one and encoder and decoder hold no
\* train_ratio, and get_search_results without beam_size uses the configured width.
C21_NoStateSurvivesCalls ==
    /\ call = Idle =>
          /\ args.beam_width = args.ctc_beam_size
          /\ ~args.encoder_train_ratio.given
          /\ ~args.decoder_train_ratio.given
    /\ (IsSearch /\ ~call.beam_size.given) => call.beam_width = args.ctc_beam_size

\* C24: every call of ctc_decoder.decode in forward_decoder's beam path and in
\* get_search_results receives the softmax of the configured layer's logits,
\* and each of the two entry points makes that call.
C24_DecodeGetsSoftmaxOfConfiguredLayer ==
    (BeamPath \/ IsSearch) =>
        /\ Len(call.decode_calls) = 1
        /\ call.decode_calls[1].softmax.x.layers = ConfiguredLayer

(***************************************************************************)
(* Claims about the encoder record and the end of the layer loop.          *)
(***************************************************************************)
IsExtract == call.op = "extract_features"

\* C22: extract_features takes an empty list in the encoder record as an absent
\* value and raises nothing: without a mask no source position counts as padded,
\* in the embedding copy and in the layers, and an empty embedding list is
\* not indexed.
C22_EmptyListIsAbsent ==
    IsExtract =>
        /\ call.pc # "raised"
        /\ Len(call.encoder_out.encoder_padding_mask) = 0 =>
              /\ ~call.layer_padding_mask.given
              /\ \A k \in DOMAIN call.src_mask :
                    \A b \in DOMAIN call.src_mask[k] : \A j \in DOMAIN call.src_mask[k][b] :
                        call.src_mask[k][b][j]

\* C25: with a final layer norm configured, the terminal entry of the logits
\* list is computed from the layer-normed hidden state.
C25_TerminalLogitsAfterLayerNorm ==
    (ExtractDone /\ args.layer_norm) =>
        call.all_layer_output_logits[Len(call.all_layer_output_logits)].x.normed

(***************************************************************************)
(* Claims about the copy mode of the CTC initializer.                      *)
(***************************************************************************)
IsCopyCall ==
    /\ call.op = "initialize_output_tokens"
    /\ args.model = "nat_ctc_sd"
    /\ args.copy_src_token

\* C23: in copy mode the initial tokens are the source tokens themselves for a
\* scale k <= 1, and otherwise B rows of S * k tokens with out[b][j] =
\* src[b][j div k], pad included, and no bos, eos or unk among them.
C23_CopyRepeatsEachTokenContiguously ==
    IsCopyCall =>
        LET src == call.src_tokens
            out == call.out.output_tokens
            k == args.src_upsample_scale
        IN  IF k <= 1
            THEN out = src
            ELSE /\ DOMAIN out = DOMAIN src
                 /\ \A b \in DOMAIN out :
                       /\ DOMAIN out[b] = 0 .. Width(src) * k - 1
                       /\ \A j \in DOMAIN out[b] :
                             /\ out[b][j] = src[b][j \div k]
                             /\ out[b][j] \notin {bos, eos, unk}

\* a padded row of two different words, upsampled: pad, pad, A, A, B, B
C23_Witness ==
    /\ IsCopyCall
    /\ args.src_upsample_scale = 2
    /\ \E b \in DOMAIN call.src_tokens :
          /\ Width(call.src_tokens) = 3
          /\ call.src_tokens[b] = [j \in 0 .. 2 |-> IF j = 0 THEN pad ELSE IF j = 1 THEN WordA ELSE WordB]
          /\ call.out.output_tokens[b][1] = pad
          /\ call.out.output_tokens[b][3] = WordA
          /\ call.out.output_tokens[b][4] = WordB

(***************************************************************************)
(* Claims about the main pass of the glancing model's forward.             *)
(***************************************************************************)
WithoutGlancing ==
    /\ IsForward
    /\ "glat" \in DOMAIN call
    /\ GlatBranch(call.glat) = "none"

\* C26: in training mode a forward call without glancing (no glat, or a glat
\* with neither context_p nor schedule) raises nothing, runs its main decoder
\* pass with a defined weight list and returns the per-layer losses.
C26_TrainingWithoutGlancingCompletes ==
    (WithoutGlancing /\ args.training) =>
        /\ call.pc # "raised"
        /\ call.decoder_passes = 1
        /\ call.feed_forward_weights.given
        /\ Len(call.word_ins) = args.decoder_layers

\* C28: each per-layer accuracy is the share of the original target's non-pad
\* positions where that layer's argmax is the original target token, whatever
\* mask was sampled.
C28_AccuracyAgainstOriginalTarget ==
    Glanced =>
        \A l \in DOMAIN call.all_layer_acc_list : \A b \in DOMAIN call.tgt_tokens :
            LET layer_pred_tokens == LayerPredTokens(call.pred_tokens, l, args.decoder_layers)
                nonpad == {j \in DOMAIN call.tgt_tokens[b] : call.tgt_tokens[b][j] # pad}
            IN  call.all_layer_acc_list[l][b] =
                    Frac(Cardinality({j \in nonpad :
                                        layer_pred_tokens[b][j] = call.tgt_tokens[b][j]}),
                         Cardinality(nonpad))

\* C29: a returned loss dictionary holds one word_ins entry per decoder layer,
\* each with factor 1 / num_layers, so the factors sum to 1.
C29_OneEntryPerLayerFactorsSumToOne ==
    (IsForward /\ call.pc \in {"returned", "done"}) =>
        /\ Len(call.word_ins) = args.decoder_layers
        /\ \A idx \in DOMAIN call.word_ins :
              call.word_ins[idx].factor = Frac(1, args.decoder_layers)
        /\ SumSeq([idx \in DOMAIN call.word_ins |-> call.word_ins[idx].factor.num])
              = args.decoder_layers

\* a single-layer decoder in training: the loop appends nothing, the terminal
\* logits are the one entry
C29_Witness ==
    /\ Glanced
    /\ args.training
    /\ args.decoder_layers = 1
    /\ Len(call.word_ins) = 1
    /\ call.word_ins[1].factor = Frac(1, 1)

\* the deepest decoder, in eval mode without glancing
C29_DeepWitness ==
    /\ IsForward
    /\ call.pc = "done"
    /\ args.decoder_layers = MaxLayers
    /\ Len(call.word_ins) = MaxLayers

(***************************************************************************)
(* Claims about the refinement history.                                    *)
(***************************************************************************)
\* C27: with history retained, forward_decoder appends exactly one entry and
\* that entry equals the output_tokens of the state it returns, on the argmax
\* paths of both models and on the beam path.
C27_HistoryEntryIsReturnedTokens ==
    (IsForwardDecoder /\ call.decoder_out.history # None) =>
        LET history == Returned("history")
        IN  /\ Len(history) = Len(GivenBefore("history")) + 1
            /\ history[Len(history)] = Returned("output_tokens")

(***************************************************************************)
(* Claims about the arguments of the CTC model's forward.                  *)
(***************************************************************************)
CtcDecoded == IsForward /\ args.model = "nat_ctc_sd" /\ call.pc = "decoded"

\* C30: whatever prev_output_tokens forward is given, the decoder input is the
\* skeleton rebuilt from src_tokens, and the logit mask and logit lengths of the
\* CTC loss are those of that skeleton: all three are determined by src_tokens
\* and the upsample scale alone.
C30_ForwardIgnoresPrevOutputTokens ==
    CtcDecoded =>
        LET skeleton == Skeleton([b \in DOMAIN call.src_tokens |->
                            ClampMin(CountNonPad(call.src_tokens[b]) * args.src_upsample_scale, 2)])
        IN  /\ call.prev_output_tokens = skeleton
            /\ call.prev_output_tokens_mask = NonPad(skeleton)
            /\ MaskLengths(call.prev_output_tokens_mask) =
                  [b \in DOMAIN call.src_tokens |->
                      ClampMin(CountNonPad(call.src_tokens[b]) * args.src_upsample_scale, 2)]

\* a given prev_output_tokens that is longer than the skeleton the decoder gets
C30_Witness ==
    /\ CtcDecoded
    /\ Width(call.given_prev_output_tokens) = 3
    /\ Width(call.prev_output_tokens) = 2
    /\ call.given_prev_output_tokens # call.tgt_tokens
    /\ \E j \in DOMAIN call.given_prev_output_tokens[0] :
          call.given_prev_output_tokens[0][j] = unk

====
